---- MODULE Spec2Model ----
(***************************************************************************)
(* Model of the Postgres user repository (backend/src/repo/user_repo_pg.rs)*)
(* and of the entity model it maps rows into                               *)
(* (backend/src/domain/model/user.rs).                                     *)
(*                                                                         *)
(* The storage is two tables.  Every SQL statement is one atomic step: it  *)
(* either takes effect and answers, or fails and changes nothing.  A       *)
(* repository call is one step per statement it awaits; between two        *)
(* statements of one call any other call may run (there is no transaction  *)
(* and no lock in the repository).                                         *)
(***************************************************************************)
EXTENDS Integers, Sequences, FiniteSets, TLC

\* ------------------------------------------------------------------ bounds

\* Repository calls started in one behaviour.
MaxCalls == 2

\* The callers (tasks): two, so that two calls can be in flight at once.
Procs == {1, 2}

\* ------------------------------------------------------------ value domains

Emails    == {"e1", "e2"}
Usernames == {"u1", "u2"}
Passwords == {"p1"}
Salts     == {"s1"}
Bios      == {"b1"}
Images    == {"i1"}

\* Option<T>: None is the empty sequence, Some(v) the one-element sequence.
None      == <<>>
Some(v)   == <<v>>
IsSome(o) == Len(o) = 1
IsNone(o) == Len(o) = 0
Unwrap(o) == o[1]
Opt(S)    == {None} \cup {Some(v) : v \in S}

\* AppUseCase values: the two the repository fixes itself, and one more that
\* only callers pass in.
UserRegister == "UserRegister"
UpdateUser   == "UpdateUser"
UseCases     == {UserRegister, UpdateUser, "UserLogin"}

\* sqlx::Error kinds a statement can fail with.
RowNotFound == "RowNotFound"
Database    == "Database"
Io          == "Io"

\* ------------------------------------------------------------- entity model

\* UserId: a wrapper of one integer (user.rs:5); from() wraps, as_value()
\* unwraps, the default is the zero identifier.
UserIdFrom(id)    == [value |-> id]
UserIdAsValue(u)  == u.value
UserIdDefault     == UserIdFrom(0)

\* ---------------------------------------------------------------- variables

VARIABLES
    accounts,     \* table accounts: a set of rows
    followings,   \* table followings: rows in storage order
    nextId,       \* the sequence behind accounts.id
    pc,           \* per caller: "idle", or the await its call is suspended at
    call,         \* per caller: the call it made last (operation; arguments the
                  \* call itself keeps across an await)
    res,          \* per caller: what that call returned
    local,        \* per caller: the call's locals that live across an await
    stmts,        \* per caller: the statements that call has issued, in order
    interleaved,  \* per caller: another caller's statement ran during the call
    ghost,        \* per caller: which stored row its read fetched, and whether
                  \* that row has been updated since
    updated,      \* history: the accounts ids an UPDATE has been applied to
    inserted,     \* history: per accounts id, the values save was called with
    calls         \* repository calls started so far

vars == <<accounts, followings, nextId, pc, call, res, local, stmts,
          interleaved, ghost, updated, inserted, calls>>

\* --------------------------------------------------------- results, errors

Ok(v)  == [ok |-> TRUE, val |-> v]
Err(e) == [ok |-> FALSE, err |-> e]

\* AppError::InvalidInput.
InvalidInput == [variant |-> "InvalidInput", cause |-> "", usecase |-> ""]

\* AppError::from((sqlx::Error, AppUseCase)): the driver's error wrapped
\* with the use case that was being attempted.
AppErrorFrom(err, usecase) == [variant |-> "Storage", cause |-> err, usecase |-> usecase]

\* ------------------------------------------------------------------ storage

AccountColumns == {"id", "email", "username", "password", "salt", "bio", "image"}

\* Columns an INSERT does not name take the schema's defaults.
DefaultBio   == ""
DefaultImage == None

Ids(accts) == {r.id : r \in accts}

\* The unique constraints on accounts.email and accounts.username: would a row
\* with these values, stored under id `self`, collide with another row?
EmailViolation(accts, self, email) ==
    \E r \in accts : r.id # self /\ r.email = email
UsernameViolation(accts, self, username) ==
    \E r \in accts : r.id # self /\ r.username = username

\* One row of a result set: the stored row cut down to the select list.
Project(r, cols) == [c \in cols |-> r[c]]

\* fetch_one: the driver's failure, or RowNotFound for an empty result set,
\* or any one row of the result set (the first, in an order SQL leaves open).
FetchOne(fault, rows) ==
    IF fault THEN {Err(Io)}
    ELSE IF rows = {} THEN {Err(RowNotFound)}
    ELSE {Ok(r) : r \in rows}

\* fetch_all over followings: the driver's failure, or the matching rows in
\* storage order.
FetchAll(fault, rows) == IF fault THEN Err(Io) ELSE Ok(rows)

\* --------------------------------------------------------------- statements

\* save: "INSERT INTO accounts(email, username, password, salt) VALUES
\* ($1, $2, $3, $4)" with user.email, user.username, pwd, salt bound in order.
SaveBindsSwapped(email, username, pwd, salt) ==
    [email |-> email, username |-> username, password |-> salt, salt |-> pwd]
SaveBinds(email, username, pwd, salt) ==
    [email |-> email, username |-> username, password |-> pwd, salt |-> salt]

\* The row an INSERT of `vals` stores under the generated id `nid`.
InsertedRow(nid, vals) ==
    [id |-> nid, email |-> vals.email, username |-> vals.username,
     password |-> vals.password, salt |-> vals.salt,
     bio |-> DefaultBio, image |-> DefaultImage]

\* The select lists of the three SELECTs on accounts.
SelectByEmailColumns  == {"id", "email", "username", "password", "salt", "bio", "image"}
SelectByIdColumnsNoImage == {"email", "username", "password", "salt", "bio"}
SelectByIdColumnsWithId  ==
    {"id", "email", "username", "password", "salt", "bio", "image"}
SelectByIdColumns     == {"email", "username", "password", "salt", "bio", "image"}
SelectProfileColumns  == {"id", "bio", "image"}

\* "... FROM accounts WHERE email = $1"
WhereEmail(accts, email) == {r \in accts : r.email = email}
\* "... FROM accounts WHERE id = $1"
WhereId(accts, id) == {r \in accts : r.id = id}
\* "... FROM accounts WHERE username = $1"
WhereUsername(accts, username) == {r \in accts : r.username = username}

\* "SELECT followed_user_id FROM followings WHERE user_id = $1", each row
\* mapped to UserId::from(followed_user_id).
RECURSIVE SelectFollowings(_, _)
SelectFollowings(rows, user_id) ==
    IF rows = <<>> THEN <<>>
    ELSE IF Head(rows).user_id = user_id
         THEN <<UserIdFrom(Head(rows).followed_user_id)>>
              \o SelectFollowings(Tail(rows), user_id)
         ELSE SelectFollowings(Tail(rows), user_id)

\* "UPDATE accounts SET email = $1, bio = $2, image = $3 WHERE id = $4"
UpdateStatementNoWhere(accts, email, bio, image, id) ==
    {[r EXCEPT !.email = email, !.bio = bio, !.image = image] : r \in accts}
UpdateStatementBioLeftOut(accts, email, bio, image, id) ==
    {IF r.id = id
     THEN [r EXCEPT !.email = email, !.image = image]
     ELSE r : r \in accts}
UpdateStatement(accts, email, bio, image, id) ==
    {IF r.id = id
     THEN [r EXCEPT !.email = email, !.bio = bio, !.image = image]
     ELSE r : r \in accts}

\* -------------------------------------------------------------- row mapping

\* impl FromRow for UserEntry: id and image are read with try_get and default
\* when the row has no such column; the other columns are required.
FromRowUserEntry(row) ==
    [user |-> [id       |-> IF "id" \in DOMAIN row THEN row.id ELSE 0,
               email    |-> row.email,
               username |-> row.username,
               bio      |-> row.bio,
               image    |-> IF "image" \in DOMAIN row THEN row.image ELSE None],
     password |-> row.password,
     salt     |-> row.salt]

\* The row closure of get_profile_by_username: the DTO, and the id it stores
\* in user_id on the side.
ProfileFromRowIdUnset(username, row) ==
    [user_id |-> 0,
     dto     |-> [username |-> username, bio |-> row.bio, image |-> row.image,
                  following |-> None]]
ProfileFromRow(username, row) ==
    [user_id |-> row.id,
     dto     |-> [username |-> username, bio |-> row.bio, image |-> row.image,
                  following |-> None]]

\* update_by_id, between its two statements: every provided field replaces
\* the fetched one, every absent field keeps it.
ApplyUpdateImageCleared(entry, email, bio, image) ==
    [entry EXCEPT
        !.user.email = IF IsSome(email) THEN Unwrap(email) ELSE entry.user.email,
        !.user.bio   = IF IsSome(bio) THEN Unwrap(bio) ELSE entry.user.bio,
        !.user.image = image]
ApplyUpdate(entry, email, bio, image) ==
    [entry EXCEPT
        !.user.email = IF IsSome(email) THEN Unwrap(email) ELSE entry.user.email,
        !.user.bio   = IF IsSome(bio) THEN Unwrap(bio) ELSE entry.user.bio,
        !.user.image = IF IsSome(image) THEN image ELSE entry.user.image]

\* The use case update_by_id passes to get_by_id and wraps a failed UPDATE in.
UpdateFetchUseCase == UpdateUser
UpdateWriteUseCase == UpdateUser
\* The use case save wraps a failed INSERT in.
SaveUseCaseLogin == "UserLogin"
SaveUseCase == UserRegister

\* ------------------------------------------------- the storage engine's part

\* What the engine does with the INSERT: a driver failure or a unique
\* violation stores nothing; otherwise the row is stored under the next id of
\* the sequence, which RETURNING hands back.
InsertOutcome(accts, seq, vals, fault) ==
    IF fault
    THEN [out |-> Err(Io), accounts |-> accts, nextId |-> seq]
    ELSE IF \/ EmailViolation(accts, seq, vals.email)
            \/ UsernameViolation(accts, seq, vals.username)
    THEN [out |-> Err(Database), accounts |-> accts, nextId |-> seq]
    ELSE [out |-> Ok([id |-> seq]),
          accounts |-> accts \cup {InsertedRow(seq, vals)},
          nextId |-> seq + 1]

\* What the engine does with the UPDATE: a driver failure or a unique
\* violation changes nothing; otherwise the statement takes effect (on no row
\* at all when none has the id, which is still a success for execute()).
UpdateOutcome(accts, email, bio, image, id, fault) ==
    IF fault
    THEN [out |-> Err(Io), accounts |-> accts]
    ELSE IF WhereId(accts, id) # {} /\ EmailViolation(accts, id, email)
    THEN [out |-> Err(Database), accounts |-> accts]
    ELSE [out |-> Ok([rows_affected |-> Cardinality(WhereId(accts, id))]),
          accounts |-> UpdateStatement(accts, email, bio, image, id)]

\* ------------------------------------------------------------ initial state

Following(a, b) == [user_id |-> a, followed_user_id |-> b]

\* The followings table is written by other parts of the application only:
\* the repository finds it as it is.  Here user 1 follows two users, user 2
\* one, and every other user none.
StoredFollowings == <<Following(1, 2), Following(2, 1), Following(1, 3)>>

\* Identifiers callers pass in: with unique emails, every id a row can have.
IdArgs == {UserIdFrom(n) : n \in 1..Cardinality(Emails)}

NoCall  == [op |-> "none"]
NoLocal == [op |-> "none"]
Pending == Err([variant |-> "Pending", cause |-> "", usecase |-> ""])
NoGhost == [row |-> 0, stale |-> FALSE]

\* The repository is constructed over a database that earlier calls have
\* filled: no account yet; or one account that save stored and update_by_id
\* has since given a bio and an image.
StoredTables ==
    { [accounts |-> {}, updated |-> {}, inserted |-> <<>>],
      [accounts |-> UpdateStatement(
                        {InsertedRow(1, SaveBinds("e1", "u1", "p1", "s1"))},
                        "e1", "b1", Some("i1"), 1),
       updated |-> {1},
       inserted |-> (1 :> [email |-> "e1", username |-> "u1",
                           password |-> "p1", salt |-> "s1"])] }

Init ==
    /\ \E t \in StoredTables :
        /\ accounts = t.accounts
        /\ updated = t.updated
        /\ inserted = t.inserted
        /\ nextId = Cardinality(t.accounts) + 1
    /\ followings = StoredFollowings
    /\ pc = [p \in Procs |-> "idle"]
    /\ call = [p \in Procs |-> NoCall]
    /\ res = [p \in Procs |-> Pending]
    /\ local = [p \in Procs |-> NoLocal]
    /\ stmts = [p \in Procs |-> <<>>]
    /\ interleaved = [p \in Procs |-> FALSE]
    /\ ghost = [p \in Procs |-> NoGhost]
    /\ calls = 0

\* ------------------------------------------------------------- bookkeeping

\* What `call` keeps of a read: the operation, and the use case the caller
\* passed if the read failed (a read that succeeds makes no use of it).
ReadCall(op, usecase, result) ==
    [op |-> op, usecase |-> IF result.ok THEN "" ELSE usecase]

\* p starts a call: it is idle and the behaviour's budget of calls is not used up.
CanStart(p) == pc[p] = "idle" /\ calls < MaxCalls

\* p issues a statement: every other call in flight has been interleaved with.
\* `starting` resets p's own mark.
Marked(p, starting) ==
    [q \in Procs |->
        IF q = p THEN (IF starting THEN FALSE ELSE interleaved[p])
        ELSE IF pc[q] # "idle" THEN TRUE ELSE interleaved[q]]

\* The stored row a read fetched.
GhostOf(out) ==
    IF out.ok THEN [row |-> out.val.id, stale |-> FALSE] ELSE NoGhost

\* ------------------------------------------------------------------ actions

\* save's Ok(row.get("id")): the generated id of the returned row.  (Every
\* value a call returns is kept as a record; this one has the one field id.)
SavedId(row) == [id |-> row.id]

\* save(user, pwd, salt): one INSERT ... RETURNING id.
SaveCall(p, email, username, pwd, salt, fault) ==
    /\ CanStart(p)
    /\ call' = [call EXCEPT ![p] = [op |-> "save"]]
    /\ LET vals == SaveBinds(email, username, pwd, salt)
           o    == InsertOutcome(accounts, nextId, vals, fault)
       IN /\ accounts' = o.accounts
          /\ nextId' = o.nextId
          /\ res' = [res EXCEPT ![p] =
                        IF o.out.ok THEN Ok(SavedId(o.out.val))
                        ELSE Err(AppErrorFrom(o.out.err, SaveUseCase))]
          /\ inserted' = IF o.out.ok
                         THEN (nextId :> [email |-> email, username |-> username,
                                          password |-> pwd, salt |-> salt])
                              @@ inserted
                         ELSE inserted
    /\ stmts' = [stmts EXCEPT ![p] = <<"INSERT">>]
    /\ interleaved' = Marked(p, TRUE)
    /\ ghost' = [ghost EXCEPT ![p] = NoGhost]
    /\ calls' = calls + 1
    /\ UNCHANGED <<followings, pc, local, updated>>

Save(p) ==
    /\ CanStart(p)
    /\ \E email \in Emails, username \in Usernames, pwd \in Passwords,
       salt \in Salts, fault \in BOOLEAN :
        SaveCall(p, email, username, pwd, salt, fault)

\* get_by_email(email, usecase): one SELECT, fetch_one, FromRow.
GetByEmailCall(p, email, usecase, fault) ==
    /\ CanStart(p)
    /\ \E out \in FetchOne(fault, WhereEmail(accounts, email)) :
        /\ call' = [call EXCEPT ![p] = ReadCall("get_by_email", usecase, out)]
        /\ res' = [res EXCEPT ![p] =
                      IF out.ok
                      THEN Ok(FromRowUserEntry(Project(out.val, SelectByEmailColumns)))
                      ELSE Err(AppErrorFrom(out.err, usecase))]
        /\ ghost' = [ghost EXCEPT ![p] = GhostOf(out)]
    /\ stmts' = [stmts EXCEPT ![p] = <<"SELECT_BY_EMAIL">>]
    /\ interleaved' = Marked(p, TRUE)
    /\ calls' = calls + 1
    /\ UNCHANGED <<accounts, followings, nextId, pc, local, updated, inserted>>

GetByEmail(p) ==
    /\ CanStart(p)
    /\ \E email \in Emails, usecase \in UseCases, fault \in BOOLEAN :
        GetByEmailCall(p, email, usecase, fault)

\* What get_by_id makes of its fetch_one: the mapped entry, or the error
\* under the use case it was given.
GetByIdResultFixedUseCase(out, usecase) ==
    IF out.ok
    THEN Ok(FromRowUserEntry(Project(out.val, SelectByIdColumns)))
    ELSE Err(AppErrorFrom(out.err, UpdateUser))
GetByIdResult(out, usecase) ==
    IF out.ok
    THEN Ok(FromRowUserEntry(Project(out.val, SelectByIdColumns)))
    ELSE Err(AppErrorFrom(out.err, usecase))

\* get_by_id(id, usecase): one SELECT, fetch_one, FromRow.
GetByIdCall(p, id, usecase, fault) ==
    /\ CanStart(p)
    /\ \E out \in FetchOne(fault, WhereId(accounts, UserIdAsValue(id))) :
        /\ call' = [call EXCEPT ![p] = ReadCall("get_by_id", usecase, out)]
        /\ res' = [res EXCEPT ![p] = GetByIdResult(out, usecase)]
        /\ ghost' = [ghost EXCEPT ![p] = GhostOf(out)]
    /\ stmts' = [stmts EXCEPT ![p] = <<"SELECT_BY_ID">>]
    /\ interleaved' = Marked(p, TRUE)
    /\ calls' = calls + 1
    /\ UNCHANGED <<accounts, followings, nextId, pc, local, updated, inserted>>

GetById(p) ==
    /\ CanStart(p)
    /\ \E id \in IdArgs, usecase \in UseCases, fault \in BOOLEAN :
        GetByIdCall(p, id, usecase, fault)

\* get_profile_by_username(username, usecase), up to its first await: the
\* SELECT on accounts.  A failure ends the call; a row leaves the call
\* suspended before get_followings.
GetProfileCall(p, username, usecase, fault) ==
    /\ CanStart(p)
    /\ \E out \in FetchOne(fault, WhereUsername(accounts, username)) :
        /\ call' = [call EXCEPT ![p] =
                        ReadCall("get_profile_by_username", usecase, out)]
        /\ IF out.ok
           THEN /\ pc' = [pc EXCEPT ![p] = "followings"]
                /\ local' = [local EXCEPT ![p] =
                       ProfileFromRow(username, Project(out.val, SelectProfileColumns))]
                /\ res' = [res EXCEPT ![p] = Pending]
           ELSE /\ pc' = pc
                /\ local' = [local EXCEPT ![p] = NoLocal]
                /\ res' = [res EXCEPT ![p] = Err(AppErrorFrom(out.err, usecase))]
        /\ ghost' = [ghost EXCEPT ![p] = GhostOf(out)]
    /\ stmts' = [stmts EXCEPT ![p] = <<"SELECT_BY_USERNAME">>]
    /\ interleaved' = Marked(p, TRUE)
    /\ calls' = calls + 1
    /\ UNCHANGED <<accounts, followings, nextId, updated, inserted>>

GetProfile(p) ==
    /\ CanStart(p)
    /\ \E username \in Usernames, usecase \in UseCases, fault \in BOOLEAN :
        GetProfileCall(p, username, usecase, fault)

\* get_profile_by_username, second await: get_followings(user_id), whose
\* failure only leaves `following` absent.
GetFollowingsStep(p, fault) ==
    /\ pc[p] = "followings"
    /\ LET followed == FetchAll(fault, SelectFollowings(followings, local[p].user_id))
           dto == [local[p].dto EXCEPT
                      !.following = IF followed.ok THEN Some(followed.val) ELSE None]
       IN res' = [res EXCEPT ![p] = Ok(dto)]
    /\ pc' = [pc EXCEPT ![p] = "idle"]
    /\ local' = [local EXCEPT ![p] = NoLocal]
    /\ stmts' = [stmts EXCEPT ![p] = Append(@, "SELECT_FOLLOWINGS")]
    /\ interleaved' = Marked(p, FALSE)
    /\ UNCHANGED <<accounts, followings, nextId, call, ghost, updated, inserted, calls>>

GetFollowings(p) == \E fault \in BOOLEAN : GetFollowingsStep(p, fault)

\* update_by_id's guard: nothing to change.
NothingToUpdateImageSlip(email, bio, image) ==
    IsNone(email) /\ IsNone(bio) /\ IsSome(image)
NothingToUpdate(email, bio, image) == IsNone(email) /\ IsNone(bio) /\ IsNone(image)

\* update_by_id(id, email, bio, image), up to its first await.  With nothing
\* to change it returns InvalidInput at once.  Otherwise it awaits
\* get_by_id(id, UpdateUser): an error ends the call, an entry is overlaid
\* with the provided fields and the call is suspended before its UPDATE.
UpdateByIdCall(p, id, email, bio, image, fault) ==
    /\ CanStart(p)
    /\ call' = [call EXCEPT ![p] = [op |-> "update_by_id", id |-> id,
                    email |-> email, bio |-> bio, image |-> image]]
    /\ IF NothingToUpdate(email, bio, image)
       THEN /\ res' = [res EXCEPT ![p] = Err(InvalidInput)]
            /\ stmts' = [stmts EXCEPT ![p] = <<>>]
            /\ interleaved' = [interleaved EXCEPT ![p] = FALSE]
            /\ ghost' = [ghost EXCEPT ![p] = NoGhost]
            /\ UNCHANGED <<pc, local>>
       ELSE /\ \E out \in FetchOne(fault, WhereId(accounts, UserIdAsValue(id))) :
                LET got == GetByIdResult(out, UpdateFetchUseCase)
                IN /\ IF got.ok
                      THEN /\ pc' = [pc EXCEPT ![p] = "update"]
                           /\ local' = [local EXCEPT ![p] =
                                  ApplyUpdate(got.val, email, bio, image)]
                           /\ res' = [res EXCEPT ![p] = Pending]
                      ELSE /\ pc' = pc
                           /\ local' = [local EXCEPT ![p] = NoLocal]
                           /\ res' = [res EXCEPT ![p] = Err(got.err)]
                   /\ ghost' = [ghost EXCEPT ![p] = GhostOf(out)]
            /\ stmts' = [stmts EXCEPT ![p] = <<"SELECT_BY_ID">>]
            /\ interleaved' = Marked(p, TRUE)
    /\ calls' = calls + 1
    /\ UNCHANGED <<accounts, followings, nextId, updated, inserted>>

UpdateById(p) ==
    /\ CanStart(p)
    /\ \E id \in IdArgs, email \in Opt(Emails), bio \in Opt(Bios),
       image \in Opt(Images), fault \in BOOLEAN :
        UpdateByIdCall(p, id, email, bio, image, fault)

\* update_by_id, second await: the UPDATE of email, bio and image from the
\* entry in memory; on success that entry is returned as it is.
UpdateWriteStep(p, fault) ==
    /\ pc[p] = "update"
    /\ LET entry == local[p]
           id    == UserIdAsValue(call[p].id)
           o     == UpdateOutcome(accounts, entry.user.email, entry.user.bio,
                                  entry.user.image, id, fault)
       IN /\ accounts' = o.accounts
          /\ res' = [res EXCEPT ![p] =
                        IF o.out.ok THEN Ok(entry)
                        ELSE Err(AppErrorFrom(o.out.err, UpdateWriteUseCase))]
          /\ updated' = IF o.out.ok /\ o.out.val.rows_affected > 0
                        THEN updated \cup {id} ELSE updated
          /\ ghost' = [q \in Procs |->
                           IF o.out.ok /\ ghost[q].row = id
                           THEN [ghost[q] EXCEPT !.stale = TRUE] ELSE ghost[q]]
    /\ pc' = [pc EXCEPT ![p] = "idle"]
    /\ local' = [local EXCEPT ![p] = NoLocal]
    /\ stmts' = [stmts EXCEPT ![p] = Append(@, "UPDATE")]
    /\ interleaved' = Marked(p, FALSE)
    /\ UNCHANGED <<followings, nextId, call, inserted, calls>>

UpdateWrite(p) == \E fault \in BOOLEAN : UpdateWriteStep(p, fault)

\* ------------------------------------------------------------ specification

Next ==
    \E p \in Procs :
        \/ Save(p)
        \/ GetByEmail(p)
        \/ GetById(p)
        \/ GetProfile(p)
        \/ GetFollowings(p)
        \/ UpdateById(p)
        \/ UpdateWrite(p)

Spec == Init /\ [][Next]_vars

\* ------------------------------------------------------ shape of the state

Done(p) == pc[p] = "idle" /\ call[p].op # "none"

TypeOK ==
    /\ \A r \in accounts : DOMAIN r = AccountColumns /\ r.id \in 1..(nextId - 1)
    /\ \A r1, r2 \in accounts : r1.id = r2.id => r1 = r2
    /\ updated \subseteq Ids(accounts)
    /\ DOMAIN inserted = Ids(accounts)
    /\ nextId = Cardinality(accounts) + 1
    /\ calls \in 0..MaxCalls
    /\ \A p \in Procs : pc[p] \in {"idle", "followings", "update"}

\* ------------------------------------------------------------------- claims

\* In this step a call of `op` has started, and p may be the one who made it:
\* what every step XCall(p, ...) of that operation implies.  The formulas
\* below test it first, and only then go through the call's arguments.
Starts(p, op) == pc[p] = "idle" /\ calls' = calls + 1 /\ call'[p].op = op

\* The stored row with this id, where there is exactly one.
RowOf(accts, id) == CHOOSE r \in accts : r.id = id

\* C1: update_by_id with email, bio and image all absent returns InvalidInput
\* at once, whatever the id and whether or not a row has it: the call is over
\* after that one step, it has issued no statement (no SELECT by id, no
\* UPDATE) and the accounts table is as it was.
C1_NoFieldsIsInvalidInput ==
    [][\A p \in Procs :
        Starts(p, "update_by_id") =>
          ( (\E id \in IdArgs, fault \in BOOLEAN :
                UpdateByIdCall(p, id, None, None, None, fault))
            => /\ res'[p] = Err(InvalidInput)
               /\ pc'[p] = "idle"
               /\ stmts'[p] = <<>>
               /\ accounts' = accounts )]_vars

\* C1's case: such a call has returned, for the id of a stored row.
C1_Witness ==
    \E p \in Procs :
        /\ Done(p)
        /\ call[p].op = "update_by_id"
        /\ NothingToUpdate(call[p].email, call[p].bio, call[p].image)
        /\ res[p] = Err(InvalidInput)
        /\ UserIdAsValue(call[p].id) \in Ids(accounts)

\* The four values save was called with, as an entry read back shows them.
SavedValuesOf(entry) ==
    [email |-> entry.user.email, username |-> entry.user.username,
     password |-> entry.password, salt |-> entry.salt]

\* C2: a save whose email and username no stored row has, and which the
\* driver does not fail, returns a positive id that no stored row had; a
\* later get_by_id of an id save returned succeeds (unless the driver fails)
\* with the username, password and salt save was called with, and with its
\* email as long as no update has touched the row; a later get_by_email of
\* the email of such an untouched row succeeds with all four values.
C2_SaveThenReadBack ==
    [][\A p \in Procs :
        /\ Starts(p, "save") =>
             \A email \in Emails, username \in Usernames,
                pwd \in Passwords, salt \in Salts :
               ( /\ SaveCall(p, email, username, pwd, salt, FALSE)
                 /\ \A r \in accounts : r.email # email /\ r.username # username )
               => /\ res'[p].ok
                  /\ res'[p].val.id > 0
                  /\ res'[p].val.id \notin Ids(accounts)
                  /\ res'[p].val.id \in Ids(accounts')
        /\ Starts(p, "get_by_id") =>
             \A id \in IdArgs, usecase \in UseCases :
               ( /\ GetByIdCall(p, id, usecase, FALSE)
                 /\ UserIdAsValue(id) \in DOMAIN inserted )
               => /\ res'[p].ok
                  /\ LET got  == SavedValuesOf(res'[p].val)
                         gave == inserted[UserIdAsValue(id)]
                     IN /\ got.username = gave.username
                        /\ got.password = gave.password
                        /\ got.salt = gave.salt
                        /\ UserIdAsValue(id) \notin updated => got.email = gave.email
        /\ Starts(p, "get_by_email") =>
             \A email \in Emails, usecase \in UseCases :
               GetByEmailCall(p, email, usecase, FALSE)
               => \A n \in DOMAIN inserted :
                    (n \notin updated /\ inserted[n].email = email)
                    => /\ res'[p].ok
                       /\ SavedValuesOf(res'[p].val) = inserted[n]]_vars

\* C2's case: one caller's save has returned an id, and the other caller's
\* get_by_email has since read that row back.
C2_Witness ==
    \E p, q \in Procs :
        /\ Done(p) /\ call[p].op = "save" /\ res[p].ok
        /\ Done(q) /\ call[q].op = "get_by_email" /\ res[q].ok
        /\ ghost[q].row = res[p].val.id
        /\ SavedValuesOf(res[q].val) = inserted[res[p].val.id]

\* C3: a successful update_by_id with no other caller's statement between its
\* SELECT and its UPDATE changes exactly the provided fields of the row: a
\* present email, bio or image is stored, an absent one keeps its stored value
\* (an absent image does not clear a stored image); id, username, password
\* and salt of the row and every other row are as before; and a get_by_id of
\* the row afterwards returns exactly these values.
C3_UpdateChangesOnlyProvided ==
    [][\A p \in Procs :
        ( /\ pc[p] = "update"
          /\ ~interleaved[p]
          /\ UpdateWriteStep(p, FALSE)
          /\ res'[p].ok )
        => LET id  == UserIdAsValue(call[p].id)
               old == RowOf(accounts, id)
               new == [old EXCEPT
                         !.email = IF IsSome(call[p].email)
                                   THEN Unwrap(call[p].email) ELSE old.email,
                         !.bio   = IF IsSome(call[p].bio)
                                   THEN Unwrap(call[p].bio) ELSE old.bio,
                         !.image = IF IsSome(call[p].image)
                                   THEN call[p].image ELSE old.image]
           IN /\ Cardinality(WhereId(accounts, id)) = 1
              /\ accounts' = (accounts \ {old}) \cup {new}
              /\ \A out \in FetchOne(FALSE, WhereId(accounts', id)) :
                   LET again == GetByIdResult(out, UpdateUser)
                   IN /\ again.ok
                      /\ again.val.user.email = new.email
                      /\ again.val.user.bio = new.bio
                      /\ again.val.user.image = new.image
                      /\ again.val.user.username = old.username
                      /\ again.val.password = old.password
                      /\ again.val.salt = old.salt]_vars

\* C3's case: an uninterleaved update that gave only a new email has
\* returned; the row has the new email and still its stored bio and image.
C3_Witness ==
    \E p \in Procs :
        /\ Done(p) /\ call[p].op = "update_by_id" /\ res[p].ok
        /\ ~interleaved[p]
        /\ IsSome(call[p].email) /\ IsNone(call[p].bio) /\ IsNone(call[p].image)
        /\ LET id == UserIdAsValue(call[p].id)
           IN /\ id \in Ids(accounts)
              /\ RowOf(accounts, id).email = Unwrap(call[p].email)
              /\ RowOf(accounts, id).email # inserted[id].email
              /\ RowOf(accounts, id).bio = "b1"
              /\ RowOf(accounts, id).image = Some("i1")

\* The followed users of user_id, in storage order, as UserIds.
FollowedBy(user_id) ==
    LET Mine(r) == r.user_id = user_id
        mine == SelectSeq(followings, Mine)
    IN [i \in 1..Len(mine) |-> UserIdFrom(mine[i].followed_user_id)]

\* C4: get_profile_by_username fails exactly when its SELECT on accounts
\* fails (the driver fails, or no row has the username): then it returns the
\* error under the caller's use case and never issues the followings query.
\* Otherwise it goes on to the followings query for the id of the row with
\* that username, and returns Ok whatever that query does: with following
\* present and holding that user's followed ids when the query succeeds,
\* with following absent when it fails.
C4_ProfileSurvivesFollowingsFailure ==
    [][\A p \in Procs :
        /\ Starts(p, "get_profile_by_username") =>
             \A username \in Usernames, usecase \in UseCases, fault \in BOOLEAN :
               GetProfileCall(p, username, usecase, fault)
               => IF fault \/ WhereUsername(accounts, username) = {}
                  THEN /\ ~res'[p].ok
                       /\ res'[p].err.variant = "Storage"
                       /\ res'[p].err.usecase = usecase
                       /\ pc'[p] = "idle"
                       /\ stmts'[p] = <<"SELECT_BY_USERNAME">>
                  ELSE /\ pc'[p] = "followings"
                       /\ local'[p].dto.username = username
                       /\ local'[p].user_id \in Ids(WhereUsername(accounts, username))
        /\ pc[p] = "followings" =>
             \A fault \in BOOLEAN :
               GetFollowingsStep(p, fault)
               => /\ res'[p].ok
                  /\ pc'[p] = "idle"
                  /\ stmts'[p] = <<"SELECT_BY_USERNAME", "SELECT_FOLLOWINGS">>
                  /\ res'[p].val.username = local[p].dto.username
                  /\ res'[p].val.following =
                        IF fault THEN None
                        ELSE Some(FollowedBy(local[p].user_id))]_vars

\* C4's case: one profile call has returned the two followed users of its
\* user, another has returned Ok with following absent.
C4_Witness ==
    \E p, q \in Procs :
        /\ Done(p) /\ call[p].op = "get_profile_by_username" /\ res[p].ok
        /\ IsSome(res[p].val.following)
        /\ Len(Unwrap(res[p].val.following)) = 2
        /\ Done(q) /\ call[q].op = "get_profile_by_username" /\ res[q].ok
        /\ IsNone(res[q].val.following)
        /\ Len(stmts[q]) = 2

\* No two stored accounts share an email or a username.
UniqueAccounts ==
    \A r1, r2 \in accounts :
        (r1.email = r2.email \/ r1.username = r2.username) => r1 = r2

\* C5: a save whose email or username a stored account already has fails
\* with the storage error under the UserRegister use case and stores nothing;
\* and after no step, of whichever caller, do two stored accounts share an
\* email or a username.
C5_DuplicateSaveFails ==
    [][/\ \A p \in Procs :
            Starts(p, "save") =>
              \A email \in Emails, username \in Usernames,
                 pwd \in Passwords, salt \in Salts, fault \in BOOLEAN :
                ( /\ SaveCall(p, email, username, pwd, salt, fault)
                  /\ \E r \in accounts : r.email = email \/ r.username = username )
                => /\ ~res'[p].ok
                   /\ res'[p].err.variant = "Storage"
                   /\ res'[p].err.usecase = UserRegister
                   /\ accounts' = accounts
       /\ UniqueAccounts']_vars

\* C5's case: a save has been refused by the unique constraint.
C5_Witness ==
    \E p \in Procs :
        /\ Done(p) /\ call[p].op = "save" /\ ~res[p].ok
        /\ res[p].err.cause = Database
        /\ res[p].err.usecase = UserRegister
        /\ accounts # {}

\* Some field of an update_by_id call is present.
SomeField(c) == IsSome(c.email) \/ IsSome(c.bio) \/ IsSome(c.image)

\* C6: the use case in the storage error of a call that has failed is the one
\* the caller passed for get_by_email, get_by_id and get_profile_by_username,
\* UserRegister for save, and UpdateUser for update_by_id with a field
\* present: both when its fetch by id failed, and then it has issued the
\* SELECT only, and when its UPDATE failed.
C6_UseCaseOfError ==
    \A p \in Procs :
        (Done(p) /\ ~res[p].ok) =>
            /\ call[p].op \in {"get_by_email", "get_by_id", "get_profile_by_username"}
               => /\ res[p].err.variant = "Storage"
                  /\ res[p].err.usecase = call[p].usecase
            /\ call[p].op = "save"
               => /\ res[p].err.variant = "Storage"
                  /\ res[p].err.usecase = UserRegister
            /\ (call[p].op = "update_by_id" /\ SomeField(call[p]))
               => /\ res[p].err.variant = "Storage"
                  /\ res[p].err.usecase = UpdateUser
                  /\ \/ stmts[p] = <<"SELECT_BY_ID">>
                     \/ stmts[p] = <<"SELECT_BY_ID", "UPDATE">>
                  /\ res[p].err.cause = RowNotFound => stmts[p] = <<"SELECT_BY_ID">>
                  /\ res[p].err.cause = Database
                     => stmts[p] = <<"SELECT_BY_ID", "UPDATE">>

\* C6's case: a get_by_id for an id no row has has failed under a use case
\* only callers use, and an update_by_id has failed in its UPDATE.
C6_Witness ==
    \E p, q \in Procs :
        /\ Done(p) /\ call[p].op = "get_by_id" /\ ~res[p].ok
        /\ res[p].err.cause = RowNotFound
        /\ call[p].usecase = "UserLogin"
        /\ Done(q) /\ call[q].op = "update_by_id" /\ ~res[q].ok
        /\ stmts[q] = <<"SELECT_BY_ID", "UPDATE">>
        /\ res[q].err.usecase = UpdateUser

\* p's get_by_id and q's get_by_email have both returned an entry of the same
\* stored row, which no UPDATE has touched since either read: the situation
\* after save returned that row's id for that email.
ReadSameRow(p, q) ==
    /\ Done(p) /\ call[p].op = "get_by_id" /\ res[p].ok
    /\ Done(q) /\ call[q].op = "get_by_email" /\ res[q].ok
    /\ ghost[p].row = ghost[q].row
    /\ ~ghost[p].stale /\ ~ghost[q].stale

\* C7 as stated: the entries get_by_id and get_by_email return of the same
\* row are equal in every field, id included.
C7_SameRowEveryField ==
    \A p, q \in Procs : ReadSameRow(p, q) => res[p].val = res[q].val

\* C7, amended: the two entries are equal in email, username, bio, image,
\* password and salt; in id they differ, get_by_email's being the row's id
\* and get_by_id's zero.
C7_SameRowExceptId ==
    \A p, q \in Procs :
        ReadSameRow(p, q) =>
            /\ res[p].val.user.email = res[q].val.user.email
            /\ res[p].val.user.username = res[q].val.user.username
            /\ res[p].val.user.bio = res[q].val.user.bio
            /\ res[p].val.user.image = res[q].val.user.image
            /\ res[p].val.password = res[q].val.password
            /\ res[p].val.salt = res[q].val.salt
            /\ res[q].val.user.id = ghost[q].row
            /\ res[p].val.user.id = 0
            /\ res[p].val.user.id # res[q].val.user.id

\* C7's case: both reads have returned the row with a stored image.
C7_Witness ==
    \E p, q \in Procs :
        /\ ReadSameRow(p, q)
        /\ res[q].val.user.image = Some("i1")
        /\ res[q].val.user.email = inserted[ghost[q].row].email

\* C8: every successful UPDATE of update_by_id stores the email, bio and image
\* of the entry the call holds in memory, whatever the row holds by then; and
\* that entry was made, when the call read the row, of the provided fields
\* and, for each absent field, of the value the row held at that read.  So a
\* field another call has stored between this call's read and its UPDATE is
\* overwritten with the older value.
C8_UpdateWritesBackItsOwnRead ==
    [][\A p \in Procs :
        /\ (Starts(p, "update_by_id") /\ pc'[p] = "update")
           => LET id  == UserIdAsValue(call'[p].id)
                  row == RowOf(accounts, id)
                  e   == local'[p].user
              IN /\ e.email = IF IsSome(call'[p].email)
                              THEN Unwrap(call'[p].email) ELSE row.email
                 /\ e.bio   = IF IsSome(call'[p].bio)
                              THEN Unwrap(call'[p].bio) ELSE row.bio
                 /\ e.image = IF IsSome(call'[p].image)
                              THEN call'[p].image ELSE row.image
        /\ (pc[p] = "update" /\ pc'[p] = "idle" /\ res'[p].ok)
           => LET id  == UserIdAsValue(call[p].id)
                  row == RowOf(accounts', id)
              IN /\ row.email = local[p].user.email
                 /\ row.bio = local[p].user.bio
                 /\ row.image = local[p].user.image]_vars

\* C8's case: two update_by_id calls on one id have both returned Ok, p having
\* given only an email and q only a bio, each interleaved with the other; and
\* the row does not have p's email: q's UPDATE has put back the email q read.
C8_Witness ==
    \E p, q \in Procs :
        /\ p # q
        /\ Done(p) /\ call[p].op = "update_by_id" /\ res[p].ok
        /\ Done(q) /\ call[q].op = "update_by_id" /\ res[q].ok
        /\ call[p].id = call[q].id
        /\ IsSome(call[p].email) /\ IsNone(call[p].bio) /\ IsNone(call[p].image)
        /\ IsNone(call[q].email) /\ IsSome(call[q].bio) /\ IsNone(call[q].image)
        /\ interleaved[p] /\ interleaved[q]
        /\ RowOf(accounts, UserIdAsValue(call[p].id)).email # Unwrap(call[p].email)
        /\ RowOf(accounts, UserIdAsValue(call[p].id)).bio = Unwrap(call[q].bio)

\* C9: an entry that get_by_id has returned has id 0, whatever id was asked
\* for, and so has the entry update_by_id has returned, although the row it
\* read and updated has a positive id; an entry get_by_email has returned has
\* the id of the stored row.
C9_ByIdEntryHasIdZero ==
    \A p \in Procs :
        (Done(p) /\ res[p].ok) =>
            /\ call[p].op \in {"get_by_id", "update_by_id"}
               => /\ res[p].val.user.id = 0
                  /\ ghost[p].row > 0
            /\ call[p].op = "get_by_email"
               => /\ res[p].val.user.id = ghost[p].row
                  /\ ghost[p].row > 0

\* C9's case: an update_by_id of row 1 has returned an entry, and a
\* get_by_email one of the same row.
C9_Witness ==
    \E p, q \in Procs :
        /\ Done(p) /\ call[p].op = "update_by_id" /\ res[p].ok
        /\ UserIdAsValue(call[p].id) = 1
        /\ res[p].val.user.id = 0
        /\ Done(q) /\ call[q].op = "get_by_email" /\ res[q].ok
        /\ res[q].val.user.id = 1

\* The columns no operation rewrites.
Fixed(r) == [id |-> r.id, username |-> r.username,
             password |-> r.password, salt |-> r.salt]

\* C10: no step changes the followings table, removes an accounts row or
\* changes the id, username, password or salt of one.  A step that changes
\* the accounts table at all is either a save returning Ok with a new id,
\* and adds the one row with that id, or the UPDATE of an update_by_id
\* returning Ok, and changes email, bio or image of the row with the call's
\* id and no other row.  So a step in which a call returns an error, and
\* every step of get_by_email, get_by_id and get_profile_by_username, leaves
\* the accounts table as it was.
C10_OnlySaveAndUpdateWrite ==
    [][/\ followings' = followings
       /\ \A r \in accounts : \E r2 \in accounts' : Fixed(r2) = Fixed(r)
       /\ accounts' # accounts =>
            \E p \in Procs :
              \/ /\ pc[p] = "idle" /\ pc'[p] = "idle"
                 /\ call'[p].op = "save"
                 /\ res'[p].ok
                 /\ res'[p].val.id \notin Ids(accounts)
                 /\ accounts \subseteq accounts'
                 /\ Ids(accounts') = Ids(accounts) \cup {res'[p].val.id}
                 /\ Cardinality(accounts') = Cardinality(accounts) + 1
              \/ /\ pc[p] = "update" /\ pc'[p] = "idle"
                 /\ res'[p].ok
                 /\ Cardinality(accounts') = Cardinality(accounts)
                 /\ \A r \in accounts :
                      r.id # UserIdAsValue(call[p].id) => r \in accounts'
       /\ \A p \in Procs :
            ( /\ pc'[p] = "idle"
              /\ <<call'[p], res'[p], stmts'[p]>> # <<call[p], res[p], stmts[p]>>
              /\ \/ ~res'[p].ok
                 \/ call'[p].op \in {"get_by_email", "get_by_id",
                                     "get_profile_by_username"} )
            => accounts' = accounts]_vars

\* C10's case: a save has returned Ok and its row is stored beside the older
\* one, and an update_by_id has returned Ok and the email it gave is stored in
\* the row of its id, whose username, password and salt are as inserted.
C10_Witness ==
    \E p, q \in Procs :
        /\ Done(p) /\ call[p].op = "save" /\ res[p].ok
        /\ res[p].val.id \in Ids(accounts)
        /\ Cardinality(accounts) = 2
        /\ Done(q) /\ call[q].op = "update_by_id" /\ res[q].ok
        /\ IsSome(call[q].email)
        /\ LET id == UserIdAsValue(call[q].id)
           IN /\ RowOf(accounts, id).email = Unwrap(call[q].email)
              /\ RowOf(accounts, id).email # inserted[id].email
              /\ RowOf(accounts, id).username = inserted[id].username

====
